---- MODULE Spec2Model ----
(***************************************************************************)
(* A model of src/macros.rs of rust-code-analysis: the macros that         *)
(* generate the node classifiers (mk_checker, mk_else_if), the language    *)
(* enumeration and its lookup tables (mk_enum, mk_extensions,              *)
(* mk_emacs_mode), the grammar bindings (mk_code) and the dispatch entry   *)
(* points (mk_action).                                                     *)
(***************************************************************************)
EXTENDS Integers, Sequences, FiniteSets, TLC

VARIABLES tree, probe, langs, lookup, procs, calls, heap, preproc, yielded

vars == <<tree, probe, langs, lookup, procs, calls, heap, preproc, yielded>>

(***************************************************************************)
(* Bounds of the model.                                                    *)
(***************************************************************************)
MaxNodes == 3
MaxKind == 1
MaxCheckerNodes == 2
MaxCheckerKind == 2
MaxTypes == 2
MaxLangs == 2
MaxArms == 2
MaxCalls == 2

Range(s) == {s[i] : i \in 1..Len(s)}

SeqsUpTo(S, n) == UNION {[1..k -> S] : k \in 0..n}

(***************************************************************************)
(* Syntax trees.  A node has the grammar's kind id, a parent (0: none) and *)
(* the field of the parent it fills.  Nodes are numbered in document       *)
(* order, so a parent comes before its children.                           *)
(***************************************************************************)
KindIds == 0..MaxKind

CheckerKindIds == 0..MaxCheckerKind

Fields == {"consequence", "alternative"}

NoParent == 0

Trees(maxNodes, kinds) ==
    UNION {{t \in [1..n -> [kind : kinds, parent : 0..(n - 1), field : Fields \cup {"none"}]] :
              /\ t[1].parent = NoParent /\ t[1].field = "none"
              /\ \A i \in 2..n : t[i].parent \in 1..(i - 1) /\ t[i].field \in Fields}
           : n \in 1..maxNodes}

kind_id(t, n) == t[n].kind

parent(t, n) == t[n].parent

(***************************************************************************)
(* mk_checker: false || typ == T1 || typ == T2 ..., over the macro's list  *)
(* of kind constants, left to right.                                       *)
(***************************************************************************)
RECURSIVE CheckerFold(_, _, _)
CheckerFold(acc, typ, types) ==
    IF types = <<>> THEN acc
    ELSE CheckerFold(acc \/ typ = Head(types), typ, Tail(types))

CheckerAllOf(t, n, types) ==
    LET typ == kind_id(t, n)
    IN  types # <<>> /\ \A i \in 1..Len(types) : typ = types[i]

mk_checker(t, n, types) ==
    LET typ == kind_id(t, n)
    IN  CheckerFold(FALSE, typ, types)

(***************************************************************************)
(* mk_else_if: is_else_if(node) for a binding whose if kind is if_type.    *)
(***************************************************************************)
ElseIfIgnoresParentKind(t, n, if_type) ==
    IF kind_id(t, n) # if_type THEN FALSE
    ELSE parent(t, n) # NoParent

is_else_if(t, n, if_type) ==
    IF kind_id(t, n) # if_type THEN FALSE
    ELSE IF parent(t, n) # NoParent
         THEN kind_id(t, n) = if_type /\ kind_id(t, parent(t, n)) = if_type
         ELSE FALSE

(***************************************************************************)
(* Cyclomatic complexity of a space (section 4.4 of the specification; the *)
(* metric's code is not part of macros.rs): 1 plus one per decision-point  *)
(* node, where an if node matching is_else_if is a continuation and does   *)
(* not count.  decisions are the binding's other decision-point kinds.     *)
(***************************************************************************)
IsDecisionPoint(t, n, if_type, decisions) ==
    \/ kind_id(t, n) = if_type /\ ~is_else_if(t, n, if_type)
    \/ kind_id(t, n) \in decisions

Cyclomatic(t, if_type, decisions) ==
    1 + Cardinality({n \in 1..Len(t) : IsDecisionPoint(t, n, if_type, decisions)})

NoProbe == [op |-> "none"]

NoPreproc == [data |-> "none", strong |-> 0]

InitTree ==
    /\ tree \in Trees(MaxNodes, KindIds)
    /\ probe = NoProbe
    /\ langs = <<>>
    /\ lookup = [op |-> "none"]
    /\ procs = {}
    /\ calls = <<>>
    /\ heap = <<>>
    /\ preproc = NoPreproc
    /\ yielded = <<>>

ProbeElseIf ==
    /\ probe = NoProbe
    /\ \E n \in 1..Len(tree), if_type \in KindIds :
          probe' = [op |-> "is_else_if", node |-> n, if_type |-> if_type,
                    res |-> is_else_if(tree, n, if_type)]
    /\ UNCHANGED <<tree, langs, lookup, procs, calls, heap, preproc, yielded>>

ProbeCyclomatic ==
    /\ probe = NoProbe
    /\ \E if_type \in KindIds :
       \E decisions \in SUBSET (KindIds \ {if_type}) :
          probe' = [op |-> "cyclomatic", if_type |-> if_type, decisions |-> decisions,
                    res |-> Cyclomatic(tree, if_type, decisions)]
    /\ UNCHANGED <<tree, langs, lookup, procs, calls, heap, preproc, yielded>>

NextTree == ProbeElseIf \/ ProbeCyclomatic

SpecTree == InitTree /\ [][NextTree]_vars

InitChecker ==
    /\ tree \in Trees(MaxCheckerNodes, CheckerKindIds)
    /\ probe = NoProbe
    /\ langs = <<>>
    /\ lookup = [op |-> "none"]
    /\ procs = {}
    /\ calls = <<>>
    /\ heap = <<>>
    /\ preproc = NoPreproc
    /\ yielded = <<>>

ProbeChecker ==
    /\ probe = NoProbe
    /\ \E n \in 1..Len(tree), types \in SeqsUpTo(CheckerKindIds, MaxTypes) :
          probe' = [op |-> "checker", node |-> n, types |-> types,
                    res |-> mk_checker(tree, n, types)]
    /\ UNCHANGED <<tree, langs, lookup, procs, calls, heap, preproc, yielded>>

NextChecker == ProbeChecker

SpecChecker == InitChecker /\ [][NextChecker]_vars

(***************************************************************************)
(* The language list handed to mk_langs.  An entry names the enum variant  *)
(* ($camel), the binding struct ($code), the parser alias ($parser) and    *)
(* the extensions and Emacs modes of the language.  rustc rejects a list   *)
(* that repeats a variant, a struct or an alias name; it accepts an empty  *)
(* extension or mode list and a string that occurs twice (the later match  *)
(* arm is unreachable).                                                    *)
(***************************************************************************)
CamelPool == <<"Rust", "Cpp", "Python", "Java">>
CodePool == <<"RustCode", "CppCode", "PythonCode", "JavaCode">>
ParserPool == <<"RustParser", "CppParser", "PythonParser", "JavaParser">>

ExtIdents == {[ident |-> "rs"], [ident |-> "h"]}
ModeNames == {"rust"}
Unregistered == "zz"

\* stringify!($ext): the text of the identifier token.
stringify(tok) == tok.ident

LangEntries(i) ==
    {e \in [camel : {CamelPool[i]}, code : {CodePool[i]}, parser : {ParserPool[i]},
            exts : SeqsUpTo(ExtIdents, MaxArms), modes : SeqsUpTo(ModeNames, MaxArms)] :
        Len(e.exts) + Len(e.modes) <= MaxArms}

RECURSIVE LangListsOf(_)
LangListsOf(n) ==
    IF n = 0 THEN {<<>>}
    ELSE {Append(l, e) : l \in LangListsOf(n - 1), e \in LangEntries(n)}

LangLists == UNION {LangListsOf(n) : n \in 1..MaxLangs}

\* mk_enum: the variants of LANG.
LANG(ls) == {ls[i].camel : i \in 1..Len(ls)}

None == [some |-> FALSE]
Some(x) == [some |-> TRUE, val |-> x]

\* A match on a string: the arms in source order, the first equal pattern
\* wins, the wildcard arm gives None.
RECURSIVE MatchStr(_, _)
RECURSIVE MatchStrLastArmCatchesAll(_, _)
MatchStrLastArmCatchesAll(arms, s) ==
    IF arms = <<>> THEN None
    ELSE IF Head(arms).pat = s \/ Len(arms) = 1 THEN Some(Head(arms).lang)
         ELSE MatchStrLastArmCatchesAll(Tail(arms), s)

MatchStr(arms, s) ==
    IF arms = <<>> THEN None
    ELSE IF Head(arms).pat = s THEN Some(Head(arms).lang)
         ELSE MatchStr(Tail(arms), s)

\* The arms mk_extensions generates: for each language in list order, one
\* arm per extension in list order.
RECURSIVE ExtArms(_)
ExtArms(ls) ==
    IF ls = <<>> THEN <<>>
    ELSE [k \in 1..Len(Head(ls).exts) |->
            [pat |-> stringify(Head(ls).exts[k]), lang |-> Head(ls).camel]]
         \o ExtArms(Tail(ls))

RECURSIVE ModeArms(_)
ModeArms(ls) ==
    IF ls = <<>> THEN <<>>
    ELSE [k \in 1..Len(Head(ls).modes) |->
            [pat |-> Head(ls).modes[k], lang |-> Head(ls).camel]]
         \o ModeArms(Tail(ls))

Reverse(s) == [i \in 1..Len(s) |-> s[Len(s) + 1 - i]]

ExtLastArmWins(ls, ext) == MatchStr(Reverse(ExtArms(ls)), ext)

get_from_ext(ls, ext) == MatchStr(ExtArms(ls), ext)

ModeLastArmWins(ls, mode) == MatchStr(Reverse(ModeArms(ls)), mode)

get_from_emacs_mode(ls, mode) == MatchStr(ModeArms(ls), mode)

ExtStrings == {stringify(t) : t \in ExtIdents} \cup {Unregistered}
ModeStrings == ModeNames \cup {Unregistered}

InitLangs ==
    /\ tree = <<>>
    /\ probe = NoProbe
    /\ langs \in LangLists
    /\ lookup = [op |-> "none"]
    /\ procs = {}
    /\ calls = <<>>
    /\ heap = <<>>
    /\ preproc = NoPreproc
    /\ yielded = <<>>

LookupExt ==
    /\ lookup.op = "none"
    /\ \E ext \in ExtStrings :
          lookup' = [op |-> "ext", key |-> ext, res |-> get_from_ext(langs, ext)]
    /\ UNCHANGED <<tree, probe, langs, procs, calls, heap, preproc, yielded>>

LookupMode ==
    /\ lookup.op = "none"
    /\ \E mode \in ModeStrings :
          lookup' = [op |-> "mode", key |-> mode, res |-> get_from_emacs_mode(langs, mode)]
    /\ UNCHANGED <<tree, probe, langs, procs, calls, heap, preproc, yielded>>

NextLangs == LookupExt \/ LookupMode

SpecLangs == InitLangs /\ [][NextLangs]_vars

(***************************************************************************)
(* mk_enum, mk_code and mk_action: what the macros generate from the       *)
(* language list.                                                          *)
(***************************************************************************)
\* Lists that differ in the names they give: every name of a pool at most
\* once (rustc rejects a repeated variant, struct or alias).
CodeLists ==
    UNION {{l \in [1..n -> [camel : Range(SubSeq(CamelPool, 1, MaxLangs)),
                            code : Range(SubSeq(CodePool, 1, MaxLangs)),
                            parser : Range(SubSeq(ParserPool, 1, MaxLangs)),
                            exts : {<<>>}, modes : {<<>>}]] :
              \A i, j \in 1..n :
                 i # j => /\ l[i].camel # l[j].camel
                          /\ l[i].code # l[j].code
                          /\ l[i].parser # l[j].parser}
           : n \in 1..MaxLangs}

\* LANG::into_enum_iter: the variants in list order.
into_enum_iter(ls) == [i \in 1..Len(ls) |-> ls[i].camel]

\* mk_code: `impl TSLanguage for $code { fn get_lang() -> LANG { LANG::$camel } }`.
Codes(ls) == {ls[i].code : i \in 1..Len(ls)}

get_lang(ls, code) == (CHOOSE e \in Range(ls) : e.code = code).camel

\* mk_code: `pub type $parser = Parser<$code>`.
ParserType(ls, parser) == (CHOOSE e \in Range(ls) : e.parser = parser).code

\* mk_action: one arm `LANG::$camel => { $parser::new(..) .. }` per entry.
ActionArmsShareFirstParser(ls) ==
    [i \in 1..Len(ls) |-> [pat |-> ls[i].camel, parser |-> ls[1].parser]]

ActionArms(ls) == [i \in 1..Len(ls) |-> [pat |-> ls[i].camel, parser |-> ls[i].parser]]

\* match lang { .. }: the arm taken.
MatchLang(arms, lang) == CHOOSE i \in 1..Len(arms) :
    /\ arms[i].pat = lang
    /\ \A j \in 1..(i - 1) : arms[j].pat # lang

(***************************************************************************)
(* A call of action, get_function_spaces or get_ops.  Parsers live at      *)
(* addresses of a heap; a call's `parser` local holds the address of the   *)
(* Parser it constructed.  preproc is the PreprocResults the callers       *)
(* share through Arc handles: its data and its strong count.               *)
(***************************************************************************)
EntryPoints == {"action", "get_function_spaces", "get_ops"}

Free == [free |-> TRUE]

Addrs == 1..MaxCalls

PrInit == [data |-> "macros", strong |-> 1]

NoParser == 0

NoValue == [none |-> TRUE]

IdleCall ==
    [pc |-> "idle", entry |-> "none", lang |-> "none", source |-> NoValue, path |-> 0,
     pr |-> None, news |-> 0, invocations |-> 0, parser |-> NoParser,
     res |-> NoValue, ret |-> NoValue]

\* $parser::new(source, path, pr): the Parser of the arm's binding over the
\* call's own source, path and preprocessing handle.
ParserNew(binding, source, path, pr) ==
    [binding |-> binding, source |-> source, path |-> path, pr |-> pr]

\* T::call(cfg, &parser), metrics(&parser, &path) and
\* operands_and_operators(&parser, &path): the result is a function of what
\* the computation is handed; a source that does not parse gives no result.
Computation(entry, ls, parser, data) ==
    IF ~parser.source.parses THEN None
    ELSE Some([by |-> entry, lang |-> get_lang(ls, parser.binding),
               source |-> parser.source, path |-> parser.path,
               preproc |-> IF parser.pr.some THEN data ELSE "none"])

\* The address a new Parser is placed at: storage no live Parser occupies.
AllocShared(h) == 1

Alloc(h) == CHOOSE a \in DOMAIN h : h[a] = Free /\ \A b \in 1..(a - 1) : h[b] # Free

\* An arm's value is the value of the computation, as it is.
ArmValue(res) == res

\* After the computation the arm is left: nothing loops back.
AfterCallRetriesAbsent(res) == IF res = None THEN "parsed" ELSE "computed"

AfterCall(res) == "computed"

\* The caller hands the call its arguments; a shared handle is a clone of
\* the caller's Arc.
Invoke(c, entries, parseOutcomes) ==
    /\ calls[c].pc = "idle"
    /\ \E entry \in entries, lang \in LANG(langs), ok \in parseOutcomes, shared \in BOOLEAN :
          /\ calls' = [calls EXCEPT ![c] =
                [IdleCall EXCEPT !.pc = "entered", !.entry = entry, !.lang = lang,
                                 !.source = [file |-> c, parses |-> ok], !.path = c,
                                 !.pr = IF shared THEN Some("preproc") ELSE None]]
          /\ preproc' = IF shared THEN [preproc EXCEPT !.strong = @ + 1] ELSE preproc
    /\ UNCHANGED <<tree, probe, langs, lookup, procs, heap, yielded>>

Construct(c) ==
    /\ calls[c].pc = "entered"
    /\ LET arm == ActionArms(langs)[MatchLang(ActionArms(langs), calls[c].lang)]
           a == Alloc(heap)
       IN  /\ heap' = [heap EXCEPT ![a] =
                  ParserNew(ParserType(langs, arm.parser), calls[c].source,
                            calls[c].path, calls[c].pr)]
           /\ calls' = [calls EXCEPT ![c].pc = "parsed", ![c].news = @ + 1,
                                     ![c].parser = a]
    /\ UNCHANGED <<tree, probe, langs, lookup, procs, preproc, yielded>>

Compute(c) ==
    /\ calls[c].pc = "parsed"
    /\ LET res == Computation(calls[c].entry, langs, heap[calls[c].parser], preproc.data)
       IN  calls' = [calls EXCEPT ![c].pc = AfterCall(res), ![c].res = res,
                                  ![c].invocations = @ + 1]
    /\ UNCHANGED <<tree, probe, langs, lookup, procs, heap, preproc, yielded>>

\* The arm ends: its value is returned and the Parser, with the handle it
\* holds, is dropped.
Return(c) ==
    /\ calls[c].pc = "computed"
    /\ calls' = [calls EXCEPT ![c].pc = "done", ![c].ret = ArmValue(calls[c].res),
                              ![c].res = NoValue, ![c].parser = NoParser]
    /\ heap' = [heap EXCEPT ![calls[c].parser] = Free]
    /\ preproc' = IF heap[calls[c].parser] # Free /\ heap[calls[c].parser].pr.some
                  THEN [preproc EXCEPT !.strong = @ - 1] ELSE preproc
    /\ UNCHANGED <<tree, probe, langs, lookup, procs, yielded>>

\* One step of the iterator into_enum_iter returns.
IterNext ==
    /\ Len(yielded) < Len(into_enum_iter(langs))
    /\ yielded' = Append(yielded, into_enum_iter(langs)[Len(yielded) + 1])
    /\ UNCHANGED <<tree, probe, langs, lookup, procs, calls, heap, preproc>>

\* One call at a time, over every language list.
InitCode ==
    /\ tree = <<>>
    /\ probe = NoProbe
    /\ langs \in CodeLists
    /\ lookup = [op |-> "none"]
    /\ procs = {1}
    /\ calls = [c \in {1} |-> IdleCall]
    /\ heap = [a \in Addrs |-> Free]
    /\ preproc = PrInit
    /\ yielded = <<>>

NextCode ==
    \/ \E c \in procs : Invoke(c, EntryPoints, BOOLEAN)
    \/ \E c \in procs : Construct(c)
    \/ \E c \in procs : Compute(c)
    \/ \E c \in procs : Return(c)
    \/ IterNext

SpecCode == InitCode /\ [][NextCode]_vars

\* Calls running concurrently on different files, sharing preproc.
InitPar ==
    /\ tree = <<>>
    /\ probe = NoProbe
    /\ langs = [i \in 1..2 |-> [camel |-> CamelPool[i], code |-> CodePool[i],
                                parser |-> ParserPool[i], exts |-> <<>>, modes |-> <<>>]]
    /\ lookup = [op |-> "none"]
    /\ procs = 1..MaxCalls
    /\ calls = [c \in 1..MaxCalls |-> IdleCall]
    /\ heap = [a \in Addrs |-> Free]
    /\ preproc = PrInit
    /\ yielded = <<>>

NextPar ==
    \/ \E c \in procs : Invoke(c, {"action", "get_function_spaces"}, {TRUE})
    \/ \E c \in procs : Construct(c)
    \/ \E c \in procs : Compute(c)
    \/ \E c \in procs : Return(c)

SpecPar == InitPar /\ [][NextPar]_vars

(***************************************************************************)
(* Claims about the node classifiers, checked under SpecTree and           *)
(* SpecChecker.                                                            *)
(***************************************************************************)

\* C1: is_else_if(node) is true if and only if the node's own kind id is the
\* binding's if kind and the node has an immediate parent whose kind id is
\* that if kind too; so it is false for an if node without a parent and for
\* any node of another kind, whatever its parent.
C1_ElseIfIffIfUnderIf ==
    probe.op = "is_else_if" =>
        LET n == probe.node
            t == probe.if_type
        IN  /\ probe.res = (/\ tree[n].kind = t
                            /\ tree[n].parent # NoParent
                            /\ tree[tree[n].parent].kind = t)
            /\ (tree[n].kind = t /\ tree[n].parent = NoParent => probe.res = FALSE)
            /\ (tree[n].kind # t => probe.res = FALSE)

C1_Witness ==
    /\ probe.op = "is_else_if"
    /\ probe.res = TRUE
    /\ tree[probe.node].parent # NoParent
    /\ \E m \in 1..Len(tree) :
          /\ tree[m].kind # probe.if_type
          /\ tree[m].parent # NoParent
          /\ tree[tree[m].parent].kind = probe.if_type

\* C3: a mk_checker predicate for the kind constants `types` is true of a node
\* if and only if the node's kind id is one of them (parent, children and
\* siblings play no part), and with no kind constant it is false of every node.
C3_CheckerIffKindInSet ==
    probe.op = "checker" =>
        /\ probe.res = (tree[probe.node].kind \in Range(probe.types))
        /\ (probe.types = <<>> => probe.res = FALSE)

C3_Witness ==
    /\ probe.op = "checker"
    /\ Len(probe.types) = 2
    /\ probe.types[1] # probe.types[2]
    /\ probe.res = TRUE
    /\ tree[probe.node].kind = probe.types[2]
    /\ tree[probe.node].parent # NoParent
    /\ tree[tree[probe.node].parent].kind # tree[probe.node].kind

\* C5: is_else_if is false for an if node that is an immediate child of
\* another if node in a position other than the else clause (such as the
\* directly nested consequence), for a top-level if, and for a node of
\* another kind (a while or for node).
C5_ElseIfFalseOutsideElseClause ==
    probe.op = "is_else_if" =>
        LET n == probe.node
            t == probe.if_type
        IN  /\ (/\ tree[n].kind = t
                /\ tree[n].parent # NoParent
                /\ tree[tree[n].parent].kind = t
                /\ tree[n].field # "alternative"
                => probe.res = FALSE)
            /\ (tree[n].kind = t /\ tree[n].parent = NoParent => probe.res = FALSE)
            /\ (tree[n].kind # t => probe.res = FALSE)

\* The if nodes of the tree form one if / else if / ... chain: the first is
\* not under an if node, every other one is the else branch of an if node,
\* no if node has two if children, and no other decision point occurs.
IfNodes(t, if_type) == {n \in 1..Len(t) : t[n].kind = if_type}

IsIfChain(t, if_type, decisions) ==
    LET ifs == IfNodes(t, if_type)
        heads == {n \in ifs : t[n].parent = NoParent \/ t[t[n].parent].kind # if_type}
    IN  /\ Cardinality(heads) = 1
        /\ \A n \in ifs \ heads : t[n].field = "alternative"
        /\ \A n, m \in ifs \ heads : t[n].parent = t[m].parent => n = m
        /\ \A n \in 1..Len(t) : t[n].kind \notin decisions

\* C4: a space whose only control flow is an if / else if / ... / else chain
\* of N >= 1 if nodes has cyclomatic complexity 1 + N (3 for
\* "if (a) { } else if (b) { }").
C4_ChainOfNCountsN ==
    /\ probe.op = "cyclomatic"
    /\ IsIfChain(tree, probe.if_type, probe.decisions)
    => probe.res = 1 + Cardinality(IfNodes(tree, probe.if_type))

(***************************************************************************)
(* Claims about the lookup tables, checked under SpecLangs.                *)
(***************************************************************************)
RegisteredExts(ls, i) == {stringify(ls[i].exts[k]) : k \in 1..Len(ls[i].exts)}

RegisteredModes(ls, i) == {ls[i].modes[k] : k \in 1..Len(ls[i].modes)}

Registered(ls, op, i) == IF op = "ext" THEN RegisteredExts(ls, i) ELSE RegisteredModes(ls, i)

\* C6: get_from_ext and get_from_emacs_mode are total: every string gives
\* None or Some language of the list; a string that no language registers
\* gives None, and no language is returned for such a string.
C6_LookupTotalNoneIfUnregistered ==
    lookup.op \in {"ext", "mode"} =>
        /\ lookup.res \in {None} \cup {Some(l) : l \in LANG(langs)}
        /\ ((\A i \in 1..Len(langs) : lookup.key \notin Registered(langs, lookup.op, i))
              <=> lookup.res = None)

C6_Witness ==
    /\ lookup.op = "ext"
    /\ lookup.key = Unregistered
    /\ lookup.res = None
    /\ \E i \in 1..Len(langs) : RegisteredExts(langs, i) # {}

\* C7: every language of the list is returned by get_from_ext for at least
\* one registered extension and by get_from_emacs_mode for at least one
\* registered mode, whatever list the macros accept.
C7_EveryLangFound ==
    lookup.op \in {"ext", "mode"} =>
    \A i \in 1..Len(langs) :
        /\ \E e \in UNION {RegisteredExts(langs, j) : j \in 1..Len(langs)} :
              get_from_ext(langs, e) = Some(langs[i].camel)
        /\ \E m \in UNION {RegisteredModes(langs, j) : j \in 1..Len(langs)} :
              get_from_emacs_mode(langs, m) = Some(langs[i].camel)

\* C7, amended: a language is returned by get_from_ext (get_from_emacs_mode)
\* for at least one string exactly when it registers an extension (a mode)
\* that no earlier language of the list registers; a language whose list is
\* empty, or holds only strings of earlier languages, is returned for none.
C7_LangFoundIffOwnsAString ==
    lookup.op \in {"ext", "mode"} =>
    \A i \in 1..Len(langs) :
        /\ (\E e \in RegisteredExts(langs, i) :
               \A j \in 1..(i - 1) : e \notin RegisteredExts(langs, j))
           <=> (\E e \in ExtStrings : get_from_ext(langs, e) = Some(langs[i].camel))
        /\ (\E m \in RegisteredModes(langs, i) :
               \A j \in 1..(i - 1) : m \notin RegisteredModes(langs, j))
           <=> (\E m \in ModeStrings : get_from_emacs_mode(langs, m) = Some(langs[i].camel))

C7_Witness ==
    /\ Len(langs) >= 2
    /\ lookup.op = "ext"
    /\ lookup.res = Some(langs[2].camel)
    /\ \E e \in RegisteredExts(langs, 2) : e \in RegisteredExts(langs, 1)
    /\ RegisteredModes(langs, 2) = {}

\* C10: a string registered for several languages is looked up to the one
\* that comes first in the language list, and whenever a lookup returns
\* Some(L) the string is one of those registered for L.
C10_FirstRegisteredWins ==
    lookup.op \in {"ext", "mode"} =>
        /\ \A i \in 1..Len(langs) :
              /\ lookup.key \in Registered(langs, lookup.op, i)
              /\ \A j \in 1..(i - 1) : lookup.key \notin Registered(langs, lookup.op, j)
              => lookup.res = Some(langs[i].camel)
        /\ (lookup.res.some =>
              \E i \in 1..Len(langs) :
                 /\ langs[i].camel = lookup.res.val
                 /\ lookup.key \in Registered(langs, lookup.op, i))

C10_Witness ==
    /\ Len(langs) >= 2
    /\ lookup.op = "mode"
    /\ lookup.key \in RegisteredModes(langs, 1) \cap RegisteredModes(langs, 2)
    /\ lookup.res = Some(langs[1].camel)

(***************************************************************************)
(* Claims about the bindings and the dispatch, checked under SpecCode (one *)
(* call at a time, every language list) and SpecPar (concurrent calls).    *)
(***************************************************************************)
InArm(k) == k.pc \in {"parsed", "computed"}

\* The Parser a call is to construct: of the binding of the call's language,
\* over the call's own source, path and handle.
OwnParser(k) ==
    [binding |-> (CHOOSE e \in Range(langs) : e.camel = k.lang).code,
     source |-> k.source, path |-> k.path, pr |-> k.pr]

\* The result of the call when it runs alone.
AloneResult(k) ==
    IF ~k.source.parses THEN None
    ELSE Some([by |-> k.entry, lang |-> k.lang, source |-> k.source, path |-> k.path,
               preproc |-> IF k.pr.some THEN PrInit.data ELSE "none"])

\* C2: for every LANG value each entry point takes exactly one arm, that of
\* the language, constructs exactly one Parser of that language's binding
\* from the given source, path and optional preprocessing result, invokes
\* the computation exactly once on it and returns its result unchanged; an
\* absent result is returned as absent and nothing is invoked again.
C2_OneArmOneParserOneCall ==
    \A c \in procs :
        LET k == calls[c]
        IN  k.pc # "idle" =>
              /\ Cardinality({i \in 1..Len(langs) : ActionArms(langs)[i].pat = k.lang}) = 1
              /\ k.news = (IF k.pc = "entered" THEN 0 ELSE 1)
              /\ k.invocations = (IF k.pc \in {"entered", "parsed"} THEN 0 ELSE 1)
              /\ (InArm(k) => heap[k.parser] = OwnParser(k))
              /\ (k.pc = "computed" => k.res = AloneResult(k))
              /\ (k.pc = "done" =>
                    /\ k.ret = AloneResult(k)
                    /\ (~k.source.parses => k.ret = None))

C2_Witness ==
    /\ Len(langs) = 2
    /\ \E c \in procs :
          /\ calls[c].pc = "done"
          /\ calls[c].entry = "get_ops"
          /\ calls[c].lang = langs[2].camel
          /\ ~calls[c].source.parses
          /\ calls[c].ret = None
          /\ calls[c].invocations = 1

\* C8: the bindings are in one-to-one correspondence with the LANG values:
\* every LANG value has exactly one binding, the binding generated for L
\* reports get_lang() = L, no two bindings report the same value, the arm of
\* action for L uses the parser type of L's own binding, and into_enum_iter
\* yields every LANG value exactly once.
C8_BindingsOneToOne ==
    /\ \A l \in LANG(langs) :
          Cardinality({b \in Codes(langs) : get_lang(langs, b) = l}) = 1
    /\ \A i \in 1..Len(langs) : get_lang(langs, langs[i].code) = langs[i].camel
    /\ \A b1, b2 \in Codes(langs) :
          get_lang(langs, b1) = get_lang(langs, b2) => b1 = b2
    /\ \A c \in procs :
          InArm(calls[c]) => get_lang(langs, heap[calls[c].parser].binding) = calls[c].lang
    /\ \A i \in 1..Len(yielded) : yielded[i] \in LANG(langs)
    /\ (Len(yielded) = Len(into_enum_iter(langs)) =>
          \A l \in LANG(langs) : Cardinality({i \in 1..Len(yielded) : yielded[i] = l}) = 1)

C8_Witness ==
    /\ Len(langs) = 2
    /\ langs[1].camel = CamelPool[2]
    /\ langs[1].code = CodePool[1]
    /\ langs[1].parser = ParserPool[2]
    /\ Len(yielded) = 2
    /\ \E c \in procs :
          /\ calls[c].pc = "parsed"
          /\ calls[c].lang = langs[2].camel
          /\ heap[calls[c].parser].binding = langs[2].code

====
